---- MODULE Spec2Model ----
(***************************************************************************)
(* Model of twine_scraper.py: the TwineScraper validators, the cleaning    *)
(* pipeline clean_data with its seen_emails set, the fallback generator    *)
(* generate_fallback_profiles and the collector scrape_role_listings.      *)
(*                                                                         *)
(* Python str values are TLA+ strings (Len, SubSeq and \o act on them).    *)
(* A Python value is a record [t, s]: t is its type ("str", "NoneType",    *)
(* "int", or "absent" for a dict key that is not there), s its text.       *)
(***************************************************************************)
EXTENDS Integers, Sequences, FiniteSets, TLC

VARIABLES
    \* ---- TwineScraper object and one clean_data call
    seen_emails,    \* self.seen_emails
    data,           \* clean_data's argument
    idx,            \* position of the for loop in data (1-based)
    cleaned,        \* clean_data's local list, its return value
    stats,          \* clean_data's local counters
    reasons,        \* per processed entry: the branch of the loop body taken
    prev,           \* what the caller kept of the previous call on the same data
    pc,             \* "idle", "loop", "done", "raised"
    \* ---- one is_test_data call
    td_email, td_name, td_result,
    \* ---- one scrape_role_listings call (with its fallback generation)
    role_type, target_count, use_fallback,
    profiles, page, retry_count, scraping_failed,
    fb_profiles, used_emails, fb_i, fb_first, fb_last, fb_domain,
    fb_email, fb_counter, returned, spc

cleanVars == <<seen_emails, data, idx, cleaned, stats, reasons, prev, pc>>
tdVars == <<td_email, td_name, td_result>>
scrapeVars == <<role_type, target_count, use_fallback, profiles, page,
                retry_count, scraping_failed, fb_profiles, used_emails, fb_i,
                fb_first, fb_last, fb_domain, fb_email, fb_counter, returned, spc>>
vars == <<cleanVars, tdVars, scrapeVars>>

-----------------------------------------------------------------------------
(* Python values *)

PyStr(s) == [t |-> "str", s |-> s]
PyNone == [t |-> "NoneType", s |-> ""]
PyInt(s) == [t |-> "int", s |-> s]
Absent == [t |-> "absent", s |-> ""]

\* bool(v)
Truthy(v) ==
    \/ v.t = "str" /\ v.s # ""
    \/ v.t = "int" /\ v.s # "0"

\* what a function call yields: a bool, or an exception
Ret(b) == [exc |-> "", val |-> b]
Raise(e) == [exc |-> e, val |-> FALSE]

-----------------------------------------------------------------------------
(* Python str methods *)

LowerAlpha == "abcdefghijklmnopqrstuvwxyz"
UpperAlpha == "ABCDEFGHIJKLMNOPQRSTUVWXYZ"
DigitChars == "0123456789"

Ch(s, i) == SubSeq(s, i, i)
Chars(s) == {Ch(s, i) : i \in 1..Len(s)}

UpperSet == Chars(UpperAlpha)
LowerSet == Chars(LowerAlpha)
AlphaSet == UpperSet \cup LowerSet

ToLower == [c \in UpperSet |-> Ch(LowerAlpha, CHOOSE i \in 1..26 : Ch(UpperAlpha, i) = c)]
ToUpper == [c \in LowerSet |-> Ch(UpperAlpha, CHOOSE i \in 1..26 : Ch(LowerAlpha, i) = c)]

IsAlphaCh(c) == c \in AlphaSet
LowerCh(c) == IF c \in UpperSet THEN ToLower[c] ELSE c
UpperCh(c) == IF c \in LowerSet THEN ToUpper[c] ELSE c

\* str.lower()
RECURSIVE Lower(_)
Lower(s) == IF s = "" THEN "" ELSE LowerCh(Ch(s, 1)) \o Lower(SubSeq(s, 2, Len(s)))

Whitespace == {" ", "\t", "\n", "\r"}

RECURSIVE LStrip(_)
LStrip(s) ==
    IF s # "" /\ Ch(s, 1) \in Whitespace THEN LStrip(SubSeq(s, 2, Len(s))) ELSE s

RECURSIVE RStrip(_)
RStrip(s) ==
    IF s # "" /\ Ch(s, Len(s)) \in Whitespace THEN RStrip(SubSeq(s, 1, Len(s) - 1)) ELSE s

\* str.strip()
Strip(s) == RStrip(LStrip(s))

\* str.startswith(p)
StartsWith(s, p) == Len(s) >= Len(p) /\ SubSeq(s, 1, Len(p)) = p

\* p in s
Contains(s, p) == \E i \in 1..(Len(s) - Len(p) + 1) : SubSeq(s, i, i + Len(p) - 1) = p

\* every character of s[a..b] is in the class cls
AllIn(s, a, b, cls) == \A k \in a..b : Ch(s, k) \in cls

\* str.replace(a, b) for one-character a
RECURSIVE Replace(_, _, _)
Replace(s, a, b) ==
    IF s = "" THEN ""
    ELSE (IF Ch(s, 1) = a THEN b ELSE Ch(s, 1)) \o Replace(SubSeq(s, 2, Len(s)), a, b)

\* str.title(): a letter after a non-letter is upper-cased, every other letter lower-cased
RECURSIVE TitleFrom(_, _)
TitleFrom(s, afterLetter) ==
    IF s = "" THEN ""
    ELSE LET c == Ch(s, 1)
         IN (IF afterLetter THEN LowerCh(c) ELSE UpperCh(c))
            \o TitleFrom(SubSeq(s, 2, Len(s)), IsAlphaCh(c))

Title(s) == TitleFrom(s, FALSE)

\* str(n) for n >= 0
RECURSIVE IntToStr(_)
IntToStr(n) ==
    IF n < 10 THEN Ch(DigitChars, n + 1)
    ELSE IntToStr(n \div 10) \o Ch(DigitChars, (n % 10) + 1)

-----------------------------------------------------------------------------
(* The validators *)

EmailLocalClass == AlphaSet \cup Chars(DigitChars) \cup Chars("._%+-")
EmailDomainClass == AlphaSet \cup Chars(DigitChars) \cup Chars(".-")
EmailTldClass == AlphaSet

\* ^[a-zA-Z0-9._%+-]+@[a-zA-Z0-9.-]+\.[a-zA-Z]{2,} matched up to position n
EmailPatternUpTo(s, n) ==
    \E i \in 2..n :
        /\ Ch(s, i) = "@"
        /\ AllIn(s, 1, i - 1, EmailLocalClass)
        /\ \E j \in (i + 2)..(n - 2) :
              /\ Ch(s, j) = "."
              /\ AllIn(s, i + 1, j - 1, EmailDomainClass)
              /\ AllIn(s, j + 1, n, EmailTldClass)

\* re.match(pattern, email): $ matches at the end and before one trailing newline
EmailPattern(s) ==
    \/ EmailPatternUpTo(s, Len(s))
    \/ Len(s) > 0 /\ Ch(s, Len(s)) = "\n" /\ EmailPatternUpTo(s, Len(s) - 1)

validate_email(email) ==
    IF ~Truthy(email) \/ email.t # "str" THEN Ret(FALSE)
    ELSE Ret(EmailPattern(email.s))

brand_keywords ==
    {"studio", "media", "agency", "productions", "designs", "labs", "official",
     "channel", "team", "llc", "inc", "ltd", "pvt", "gmbh", "plc", "company",
     "group", "collective", "enterprise", "corporation"}

is_valid_name(name) ==
    IF ~Truthy(name) THEN Ret(FALSE)
    ELSE IF name.t # "str" THEN Raise("AttributeError")   \* name.strip() on a non-str
    ELSE IF Len(Strip(name.s)) < 2 THEN Ret(FALSE)
    ELSE LET name_lower == Strip(Lower(name.s))
         IN IF \E keyword \in brand_keywords : Contains(name_lower, keyword) THEN Ret(FALSE)
            ELSE IF StartsWith(name_lower, "the ") THEN Ret(FALSE)
            ELSE Ret(TRUE)

test_emails == {"test@", "example@", "sample@", "demo@", "placeholder@"}
test_names == {"test", "sample", "demo", "placeholder", "example"}

is_test_data(email, name) ==
    IF email.t # "str" THEN Raise("AttributeError")       \* email.lower() on a non-str
    ELSE IF \E pattern \in test_emails : Contains(Lower(email.s), pattern) THEN Ret(TRUE)
    ELSE IF name.t # "str" THEN Raise("AttributeError")    \* name.lower() on a non-str
    ELSE Ret(Lower(name.s) \in test_names)

UrlPrefix == "https://www.twine.net/"
UrlMinLen == 30

validate_profile_url(url) ==
    IF ~Truthy(url) \/ url.t # "str" THEN Ret(FALSE)
    ELSE Ret(StartsWith(url.s, UrlPrefix) /\ Len(url.s) > UrlMinLen)

-----------------------------------------------------------------------------
(* clean_data *)

MaxBatch == 3

Entry(name, email, profile_link, role) ==
    [name |-> name, email |-> email, profile_link |-> profile_link, role_type |-> role]

EmailA == PyStr("john.smith@gmail.com")
EmailB == PyStr("emma.brown@yahoo.com")
UrlA == PyStr("https://www.twine.net/profile/john-smith-1")
UrlB == PyStr("https://www.twine.net/profile/emma-brown-2")
LabelUGC == PyStr("UGC Creator")

\* the entries a batch is drawn from
Pool ==
    { Entry(PyStr("John Smith"), EmailA, UrlA, LabelUGC),
      Entry(PyStr("Emma Brown"), EmailB, UrlB, LabelUGC),
      Entry(PyStr("Creative Media Studio"), EmailA,
            PyStr("https://www.twine.net/profile/studio-1"), LabelUGC),
      Entry(PyStr("The Agency Group"), PyStr("not-an-email"),
            PyStr("https://www.twine.net/profile/agency-2"), LabelUGC),
      Entry(PyStr("Test User"), PyStr("test@test.com"),
            PyStr("https://www.twine.net/profile/test-3"), LabelUGC),
      Entry(PyStr("Emma Brown"), EmailB, PyStr("https://twine.net/x"), LabelUGC),
      Entry(PyNone, PyNone, PyNone, LabelUGC),
      Entry(PyNone, EmailA, UrlA, LabelUGC),
      Entry(PyStr("John Smith"), EmailA, PyNone, LabelUGC),
      Entry(PyInt("123"), EmailB, UrlB, LabelUGC),
      Entry(PyStr("John Smith"), EmailA, Absent, LabelUGC) }

Batches == UNION {[1..n -> Pool] : n \in 0..MaxBatch}

Reasons == {"duplicates", "invalid_emails", "brand_names", "test_data", "invalid_urls"}
Exceptions == {"KeyError", "AttributeError"}

ZeroStats == [r \in Reasons |-> 0]
NoPrev == [kept |-> FALSE, cleaned |-> <<>>]

\* the loop body with the URL gate left out
LoopBodyNoUrlGate(entry, seen) ==
    IF entry.email.t = "absent" THEN "KeyError"
    ELSE IF entry.email \in seen THEN "duplicates"
    ELSE IF ~validate_email(entry.email).val THEN "invalid_emails"
    ELSE IF entry.name.t = "absent" THEN "KeyError"
    ELSE IF is_valid_name(entry.name).exc # "" THEN is_valid_name(entry.name).exc
    ELSE IF ~is_valid_name(entry.name).val THEN "brand_names"
    ELSE IF is_test_data(entry.email, entry.name).val THEN "test_data"
    ELSE "accepted"

\* the loop body with the name gate ahead of the email gate
LoopBodyNameFirst(entry, seen) ==
    IF entry.email.t = "absent" THEN "KeyError"
    ELSE IF entry.email \in seen THEN "duplicates"
    ELSE IF entry.name.t = "absent" THEN "KeyError"
    ELSE IF is_valid_name(entry.name).exc # "" THEN is_valid_name(entry.name).exc
    ELSE IF ~is_valid_name(entry.name).val THEN "brand_names"
    ELSE IF ~validate_email(entry.email).val THEN "invalid_emails"
    ELSE IF is_test_data(entry.email, entry.name).val THEN "test_data"
    ELSE IF entry.profile_link.t = "absent" THEN "KeyError"
    ELSE IF ~validate_profile_url(entry.profile_link).val THEN "invalid_urls"
    ELSE "accepted"

\* One iteration of the for loop: the branch taken for entry, "accepted" when it
\* is appended, or the exception raised. entry[k] of an absent key raises KeyError.
LoopBody(entry, seen) ==
    IF entry.email.t = "absent" THEN "KeyError"
    ELSE IF entry.email \in seen THEN "duplicates"
    ELSE IF ~validate_email(entry.email).val THEN "invalid_emails"
    ELSE IF entry.name.t = "absent" THEN "KeyError"
    ELSE LET valid_name == is_valid_name(entry.name)
         IN IF valid_name.exc # "" THEN valid_name.exc
            ELSE IF ~valid_name.val THEN "brand_names"
            ELSE LET test_data == is_test_data(entry.email, entry.name)
                 IN IF test_data.exc # "" THEN test_data.exc
                    ELSE IF test_data.val THEN "test_data"
                    ELSE IF entry.profile_link.t = "absent" THEN "KeyError"
                    ELSE IF ~validate_profile_url(entry.profile_link).val THEN "invalid_urls"
                    ELSE "accepted"

\* the counters with the duplicate branch not counted
StatsAfterNoDuplicates(st, outcome) ==
    IF outcome \in Reasons \ {"duplicates"} THEN [st EXCEPT ![outcome] = @ + 1] ELSE st

\* stats[...] += 1 of the branch taken
StatsAfter(st, outcome) ==
    IF outcome \in Reasons THEN [st EXCEPT ![outcome] = @ + 1] ELSE st

\* cleaned.append(entry) of the last branch
CleanedAfter(cl, entry, outcome) ==
    IF outcome = "accepted" THEN Append(cl, entry) ELSE cl

\* the email recorded before the gates, whatever the branch
SeenAfterAlways(seen, entry, outcome) == seen \cup {entry.email}

\* the email never recorded
SeenAfterNever(seen, entry, outcome) == seen

\* self.seen_emails.add(entry['email']) of the last branch
SeenAfter(seen, entry, outcome) ==
    IF outcome = "accepted" THEN seen \cup {entry.email} ELSE seen

\* the locals of a clean_data call as it enters the loop
StartCall(batch) ==
    /\ data' = batch
    /\ idx' = 1
    /\ cleaned' = <<>>
    /\ stats' = ZeroStats
    /\ reasons' = <<>>
    /\ pc' = "loop"
    /\ UNCHANGED seen_emails

\* scraper.clean_data(batch)
CallCleanData ==
    /\ pc = "idle"
    /\ \E batch \in Batches : StartCall(batch)
    /\ prev' = NoPrev

\* a second clean_data call on the same object with the same data
CallAgain ==
    /\ pc = "done"
    /\ StartCall(data)
    /\ prev' = [kept |-> TRUE, cleaned |-> cleaned]

\* one entry of the for loop
Iterate ==
    /\ pc = "loop"
    /\ idx <= Len(data)
    /\ LET entry == data[idx]
           outcome == LoopBody(entry, seen_emails)
       IN IF outcome \in Exceptions
          THEN /\ pc' = "raised"
               /\ UNCHANGED <<seen_emails, data, idx, cleaned, stats, reasons, prev>>
          ELSE /\ stats' = StatsAfter(stats, outcome)
               /\ cleaned' = CleanedAfter(cleaned, entry, outcome)
               /\ seen_emails' = SeenAfter(seen_emails, entry, outcome)
               /\ reasons' = Append(reasons, outcome)
               /\ idx' = idx + 1
               /\ UNCHANGED <<data, prev, pc>>

\* the loop is over: return cleaned
Return ==
    /\ pc = "loop"
    /\ idx > Len(data)
    /\ pc' = "done"
    /\ UNCHANGED <<seen_emails, data, idx, cleaned, stats, reasons, prev>>

\* the caller drops the result; the object lives on
Discard ==
    /\ pc = "done"
    /\ pc' = "idle"
    /\ data' = <<>>
    /\ idx' = 1
    /\ cleaned' = <<>>
    /\ stats' = ZeroStats
    /\ reasons' = <<>>
    /\ prev' = NoPrev
    /\ UNCHANGED seen_emails

\* TwineScraper(): __init__
InitClean ==
    /\ seen_emails = {}
    /\ data = <<>>
    /\ idx = 1
    /\ cleaned = <<>>
    /\ stats = ZeroStats
    /\ reasons = <<>>
    /\ prev = NoPrev
    /\ pc = "idle"

TdIdle ==
    /\ td_email = PyNone
    /\ td_name = PyNone
    /\ td_result = Ret(FALSE)

ScrapeIdle ==
    /\ role_type = ""
    /\ target_count = 0
    /\ use_fallback = TRUE
    /\ profiles = <<>>
    /\ page = 1
    /\ retry_count = 0
    /\ scraping_failed = FALSE
    /\ fb_profiles = <<>>
    /\ used_emails = {}
    /\ fb_i = 0
    /\ fb_first = ""
    /\ fb_last = ""
    /\ fb_domain = ""
    /\ fb_email = ""
    /\ fb_counter = 1
    /\ returned = <<>>
    /\ spc = "idle"

Init == InitClean /\ TdIdle /\ ScrapeIdle

Next ==
    \/ CallCleanData /\ UNCHANGED <<tdVars, scrapeVars>>
    \/ CallAgain /\ UNCHANGED <<tdVars, scrapeVars>>
    \/ Iterate /\ UNCHANGED <<tdVars, scrapeVars>>
    \/ Return /\ UNCHANGED <<tdVars, scrapeVars>>
    \/ Discard /\ UNCHANGED <<tdVars, scrapeVars>>

Spec == Init /\ [][Next]_vars

-----------------------------------------------------------------------------
(* Properties of clean_data *)

Range(f) == {f[i] : i \in DOMAIN f}
SumStats(st) ==
    st["duplicates"] + st["invalid_emails"] + st["brand_names"] + st["test_data"]
    + st["invalid_urls"]

\* what the four validators say of each entry of the pool, worked out once
Verdicts ==
    [e \in Pool |->
        [email |-> validate_email(e.email),
         name |-> is_valid_name(e.name),
         test |-> is_test_data(e.email, e.name),
         url |-> validate_profile_url(e.profile_link)]]

\* the four validators all let the entry through
PassesValidators(entry) ==
    /\ Verdicts[entry].email = Ret(TRUE)
    /\ Verdicts[entry].name = Ret(TRUE)
    /\ Verdicts[entry].test = Ret(FALSE)
    /\ Verdicts[entry].url = Ret(TRUE)

\* the gates in the documented order
GateOrder == <<"duplicates", "invalid_emails", "brand_names", "test_data", "invalid_urls">>

GateFails(g, entry, seen) ==
    CASE g = 1 -> entry.email \in seen
      [] g = 2 -> ~Verdicts[entry].email.val
      [] g = 3 -> ~Verdicts[entry].name.val
      [] g = 4 -> Verdicts[entry].test.val
      [] g = 5 -> ~Verdicts[entry].url.val

FirstFailingGate(entry, seen) ==
    LET fails == [g \in 1..5 |-> GateFails(g, entry, seen)]
    IN IF \E g \in 1..5 : fails[g]
       THEN GateOrder[CHOOSE g \in 1..5 : fails[g] /\ \A h \in 1..(g - 1) : ~fails[h]]
       ELSE "accepted"

\* a step of the loop that decided data[idx]
Decided == pc = "loop" /\ idx <= Len(data) /\ idx' = idx + 1

\* the seen-set as it was when the running call began: an accepted email was not
\* in it, or the duplicate gate would have stopped the entry
SeenBeforeCall == seen_emails \ {cleaned[k].email : k \in 1..Len(cleaned)}

\* C1: every record of the accepted list has an email that validate_email passes
\* and that no other accepted record has, a name that is_valid_name passes and
\* is_test_data does not flag, and a profile_link that validate_profile_url passes.
C1_AcceptedAreValidAndUnique ==
    \A i \in 1..Len(cleaned) :
        /\ PassesValidators(cleaned[i])
        /\ \A j \in 1..Len(cleaned) : j # i => cleaned[j].email # cleaned[i].email

C1_Witness ==
    /\ pc = "done"
    /\ Len(cleaned) >= 2
    /\ Len(data) > Len(cleaned)

\* C2: each entry the loop decides ends accepted or rejected for exactly one
\* reason, the first gate it fails in the order duplicate, email, name, test
\* data, URL; an entry with an invalid email and a brand-like name counts as
\* invalid_emails, never as brand_names.
C2_FirstFailingGateWins ==
    [][Decided =>
        LET entry == data[idx]
            expected == FirstFailingGate(entry, seen_emails)
        IN /\ reasons' = Append(reasons, expected)
           /\ IF expected = "accepted"
              THEN stats' = stats /\ cleaned' = Append(cleaned, entry)
              ELSE /\ stats' = [stats EXCEPT ![expected] = @ + 1]
                   /\ cleaned' = cleaned
           /\ (GateFails(2, entry, seen_emails) /\ GateFails(3, entry, seen_emails)
               /\ ~GateFails(1, entry, seen_emails))
                 => /\ stats'["invalid_emails"] = stats["invalid_emails"] + 1
                    /\ stats'["brand_names"] = stats["brand_names"]]_vars

C2_Witness ==
    \E i \in 1..Len(reasons) :
        /\ data[i].email.t = "str"
        /\ data[i].name.t = "str"
        /\ ~validate_email(data[i].email).val
        /\ is_valid_name(data[i].name) = Ret(FALSE)
        /\ reasons[i] = "invalid_emails"

\* C3: the seen-set changes only by the email of an entry accepted in that step;
\* a step that rejects an entry, at whatever gate, leaves it as it was.
C3_SeenGrowsOnlyOnAccept ==
    [][/\ (Decided /\ Len(cleaned') = Len(cleaned)) => seen_emails' = seen_emails
       /\ (seen_emails' # seen_emails) =>
             /\ Decided
             /\ cleaned' = Append(cleaned, data[idx])
             /\ seen_emails' = seen_emails \cup {data[idx].email}]_vars

\* an entry rejected by a validator, then an entry with the same email accepted
C3_Witness ==
    \E i, j \in 1..Len(reasons) :
        /\ i < j
        /\ data[i].email = data[j].email
        /\ reasons[i] \in {"brand_names", "test_data", "invalid_urls"}
        /\ reasons[j] = "accepted"

\* C4: the seen-set is empty when a clean_data call begins, and a second call on
\* the same object with the same data returns what the first returned.
C4_SeenEmptyAtEachRun ==
    /\ (pc = "loop" /\ idx = 1) => seen_emails = {}
    /\ (pc = "done" /\ prev.kept) => cleaned = prev.cleaned

\* C5: of the entries of a batch that carry one email, pass the four validators
\* and whose email was not seen before the call, the first is accepted and every
\* later one is rejected as a duplicate: k occurrences, one acceptance, k - 1
\* duplicates.
C5_OneAcceptanceRestDuplicates ==
    LET passes == [h \in 1..Len(reasons) |-> PassesValidators(data[h])]
    IN \A i \in 1..Len(reasons) :
          (passes[i] /\ data[i].email \notin SeenBeforeCall) =>
              LET occ == {h \in 1..Len(reasons) : data[h].email = data[i].email /\ passes[h]}
                  first == CHOOSE h \in occ : \A g \in occ : h <= g
              IN /\ reasons[first] = "accepted"
                 /\ \A h \in occ \ {first} : reasons[h] = "duplicates"
                 /\ Cardinality({k \in 1..Len(cleaned) : cleaned[k].email = data[i].email}) = 1

C5_Witness ==
    /\ pc = "done"
    /\ Len(data) = 3
    /\ PassesValidators(data[1])
    /\ data[2] = data[1]
    /\ data[3] = data[1]
    /\ reasons = <<"accepted", "duplicates", "duplicates">>

C7_NeverRaises == pc # "raised"

-----------------------------------------------------------------------------
(* One is_test_data call on drawn arguments *)

TdEmails ==
    {"john.smith@gmail.com", "test@test.com", "Example@Example.com", "contest@x.org",
     "demo.user@mail.com", "sample@mail.io", "PLACEHOLDER@x.co", "a.test@mail.com"}

TdNames ==
    {"Test", "test", " Test ", "SAMPLE ", "Test User", "John Smith", "demo",
     "Placeholder", "\texample\n", "examples"}

TdPending == [exc |-> "pending", val |-> FALSE]

CallIsTestData ==
    /\ td_result = TdPending
    /\ td_result' = is_test_data(td_email, td_name)
    /\ UNCHANGED <<td_email, td_name>>

InitTestData ==
    /\ td_email \in {PyStr(e) : e \in TdEmails}
    /\ td_name \in {PyStr(n) : n \in TdNames}
    /\ td_result = TdPending
    /\ InitClean
    /\ ScrapeIdle

NextTestData == CallIsTestData /\ UNCHANGED <<cleanVars, scrapeVars>>

TestDataSpec == InitTestData /\ [][NextTestData]_vars

\* C8: is_test_data returns true exactly when the lower-cased email contains
\* one of test@, example@, sample@, demo@, placeholder@, or the lower-cased and
\* trimmed name is one of test, sample, demo, placeholder, example.
C8_TestDataExactly ==
    td_result # TdPending =>
        /\ td_result.exc = ""
        /\ td_result.val =
              (\/ \E pattern \in test_emails : Contains(Lower(td_email.s), pattern)
               \/ Strip(Lower(td_name.s)) \in test_names)

-----------------------------------------------------------------------------
(* scrape_role_listings and generate_fallback_profiles *)

MaxTarget == 2
MaxPage == 3
max_retries == 2
PerPage == 10
EditorIdOffset == 1000

role_urls == {"ugc_creators", "video_editors"}
RoleKeys == role_urls \cup {"designers"}

\* the generator's three lists in full
all_first_names ==
    {"Emma", "Liam", "Olivia", "Noah", "Ava", "Ethan", "Sophia", "Mason",
     "Isabella", "William", "Mia", "James", "Charlotte", "Benjamin", "Amelia",
     "Lucas", "Harper", "Henry", "Evelyn", "Alexander", "Abigail", "Michael",
     "Emily", "Daniel", "Elizabeth", "Matthew", "Sofia", "David", "Avery",
     "Joseph", "Ella", "Carter", "Scarlett", "Owen", "Grace", "Wyatt", "Chloe",
     "Sebastian", "Victoria", "Jack", "Madison", "Luke", "Aria", "Nathan",
     "Hannah", "Caleb", "Addison", "Isaac", "Natalie", "Gabriel", "Lily"}

all_last_names ==
    {"Smith", "Johnson", "Williams", "Brown", "Jones", "Garcia", "Miller",
     "Davis", "Rodriguez", "Martinez", "Hernandez", "Lopez", "Wilson",
     "Anderson", "Thomas", "Taylor", "Moore", "Jackson", "Martin", "Lee",
     "Thompson", "White", "Harris", "Clark", "Lewis", "Robinson", "Walker",
     "Young", "Allen", "King", "Wright", "Scott", "Torres", "Nguyen", "Hill",
     "Flores", "Green", "Adams", "Nelson", "Baker", "Hall", "Rivera",
     "Campbell", "Mitchell", "Carter", "Roberts", "Phillips", "Evans", "Turner"}

all_email_domains == {"gmail.com", "outlook.com", "yahoo.com", "protonmail.com", "icloud.com"}

\* the part of the three lists a run of the model draws from
first_names == {"Emma", "Liam"}
last_names == {"Smith"}
email_domains == {"gmail.com", "outlook.com"}

\* what the site can serve: hrefs of a listing page, and what a profile page yields
Hrefs == {"/profile/jane-doe", "https://www.twine.net/profile/jane-doe", "/profile/sam-lee"}
PageData ==
    { [name |-> PyStr("Jane Doe"), email |-> PyStr("jane.doe@mail.com")],
      [name |-> PyStr("Sam Lee"), email |-> PyNone],
      [name |-> PyNone, email |-> PyNone] }

Min(a, b) == IF a < b THEN a ELSE b

\* href as appended to profile_links
AbsoluteHref(href) ==
    IF StartsWith(href, "http") THEN href ELSE "https://www.twine.net" \o href

\* the role label the collector gives its records
CollectorLabel(role) == Title(Replace(role, "_", " "))

\* role_display of the generator
role_display(role) == IF role = "ugc_creators" THEN "UGC Creator" ELSE "Video Editor"

\* role_suffix of the generator
role_suffix(role) == IF role = "ugc_creators" THEN "ugc-creator" ELSE "video-editor"

\* the record appended for a scraped profile
ScrapedProfile(pd, link, role) ==
    Entry(pd.name, pd.email, PyStr(link), PyStr(CollectorLabel(role)))

\* the for loop over profile_links: links and what each profile page gave
RECURSIVE Collected(_, _, _)
Collected(links, results, role) ==
    IF links = <<>> THEN <<>>
    ELSE (IF Truthy(results[1].email) /\ Truthy(results[1].name)
          THEN <<ScrapedProfile(results[1], links[1], role)>>
          ELSE <<>>)
         \o Collected(Tail(links), Tail(results), role)

\* the sequences of n distinct members of S: list(set(profile_links))[:n], in any order
Orderings(S, n) ==
    {q \in [1..n -> S] : \A i, j \in 1..n : i # j => q[i] # q[j]}

\* email_base of the generator
email_base(first, last) == Lower(first) \o "." \o Lower(last)

\* the round's record with the link left relative to the site
FallbackProfileRelativeLink(first, last, email, role, i) ==
    LET profile_id == i + 1 + (IF role = "ugc_creators" THEN 0 ELSE EditorIdOffset)
        profile_slug == Lower(first) \o "-" \o Lower(last) \o "-" \o role_suffix(role)
    IN Entry(PyStr(first \o " " \o last), PyStr(email),
             PyStr("/profile/" \o profile_slug \o "-" \o IntToStr(profile_id)),
             PyStr(role_display(role)))

\* the record the generator appends in round i (0-based)
FallbackProfile(first, last, email, role, i) ==
    LET profile_id == i + 1 + (IF role = "ugc_creators" THEN 0 ELSE EditorIdOffset)
        profile_slug == Lower(first) \o "-" \o Lower(last) \o "-" \o role_suffix(role)
    IN Entry(PyStr(first \o " " \o last), PyStr(email),
             PyStr("https://www.twine.net/profile/" \o profile_slug \o "-" \o IntToStr(profile_id)),
             PyStr(role_display(role)))

invalid_entries(role) ==
    << Entry(PyStr("Creative Media Studio"), PyStr("contact@studio.com"),
             PyStr("https://www.twine.net/profile/studio-1"), PyStr(role_display(role))),
       Entry(PyStr("The Agency Group"), PyStr("info@agency.com"),
             PyStr("https://www.twine.net/profile/agency-2"), PyStr(role_display(role))),
       Entry(PyStr("Test User"), PyStr("test@test.com"),
             PyStr("https://www.twine.net/profile/test-3"), PyStr(role_display(role))),
       Entry(PyStr("Sample Name"), PyStr("example@example.com"),
             PyStr("https://www.twine.net/profile/sample-4"), PyStr(role_display(role))) >>

\* the emails taken after this round, with the round's email left out
UsedAfterForgets(used, email) == used

\* used_emails.add(email)
UsedAfter(used, email) == used \cup {email}

genVars == <<fb_profiles, used_emails, fb_i, fb_first, fb_last, fb_domain, fb_email, fb_counter>>
loopVars == <<profiles, page, retry_count, scraping_failed>>
argVars == <<role_type, target_count, use_fallback>>

\* scrape_role_listings(role_type, target_count): an unknown role returns []
UnknownRole ==
    /\ spc = "called"
    /\ role_type \notin role_urls
    /\ returned' = <<>>
    /\ spc' = "done"
    /\ UNCHANGED <<argVars, loopVars, genVars>>

EnterLoop ==
    /\ spc = "called"
    /\ role_type \in role_urls
    /\ spc' = "loop"
    /\ UNCHANGED <<argVars, loopVars, genVars, returned>>

InLoop == spc = "loop" /\ Len(profiles) < target_count /\ retry_count < max_retries

\* the page load or the wait raises TimeoutException or WebDriverException
PageTimeout ==
    /\ InLoop
    /\ retry_count' = retry_count + 1
    /\ IF retry_count + 1 >= max_retries
       THEN scraping_failed' = TRUE /\ spc' = "after_loop"
       ELSE scraping_failed' = scraping_failed /\ spc' = "loop"
    /\ UNCHANGED <<argVars, profiles, page, genVars, returned>>

\* the iteration raises any other exception (self.driver is None, a parse error)
PageError ==
    /\ InLoop
    /\ scraping_failed' = TRUE
    /\ spc' = "after_loop"
    /\ UNCHANGED <<argVars, profiles, page, retry_count, genVars, returned>>

\* the page has no profile link
PageEmpty ==
    /\ InLoop
    /\ retry_count' = retry_count + 1
    /\ UNCHANGED <<argVars, profiles, page, scraping_failed, genVars, returned, spc>>

\* the page has profile links: each profile page is scraped. The page number only
\* names the URL and nothing reads it back, so it is counted round 1..MaxPage: a
\* run that keeps loading pages keeps changing it, as page += 1 does.
PageWithLinks ==
    /\ InLoop
    /\ \E hrefs \in (SUBSET Hrefs) \ {{}} :
          LET found == {AbsoluteHref(h) : h \in hrefs}
              n == Min(Min(Cardinality(found), target_count - Len(profiles)), PerPage)
          IN \E links \in Orderings(found, n) :
                \E results \in [1..n -> PageData] :
                    profiles' = profiles \o Collected(links, results, role_type)
    /\ page' = (page % MaxPage) + 1
    /\ UNCHANGED <<argVars, retry_count, scraping_failed, genVars, returned, spc>>

\* the while condition is false
LeaveLoop ==
    /\ spc = "loop"
    /\ ~InLoop
    /\ spc' = "after_loop"
    /\ UNCHANGED <<argVars, loopVars, genVars, returned>>

\* too few profiles and use_fallback: the generator's result is returned
StartFallback ==
    /\ spc = "after_loop"
    /\ Len(profiles) < target_count /\ use_fallback
    /\ fb_profiles' = <<>>
    /\ used_emails' = {}
    /\ fb_i' = 0
    /\ spc' = IF target_count > 0 THEN "gen_for" ELSE "gen_extend"
    /\ UNCHANGED <<argVars, loopVars, fb_first, fb_last, fb_domain, fb_email, fb_counter, returned>>

ReturnProfiles ==
    /\ spc = "after_loop"
    /\ ~(Len(profiles) < target_count /\ use_fallback)
    /\ returned' = profiles
    /\ spc' = "done"
    /\ UNCHANGED <<argVars, loopVars, genVars>>

\* a round of the generator's for loop up to the while loop: the random draws
GenDraw ==
    /\ spc = "gen_for"
    /\ \E first \in first_names, last \in last_names, domain \in email_domains :
          /\ fb_first' = first
          /\ fb_last' = last
          /\ fb_domain' = domain
          /\ fb_email' = email_base(first, last) \o "@" \o domain
    /\ fb_counter' = 1
    /\ spc' = "gen_while"
    /\ UNCHANGED <<argVars, loopVars, fb_profiles, used_emails, fb_i, returned>>

\* one turn of while email in used_emails
GenSuffix ==
    /\ spc = "gen_while"
    /\ fb_email \in used_emails
    /\ fb_email' = email_base(fb_first, fb_last) \o IntToStr(fb_counter) \o "@" \o fb_domain
    /\ fb_counter' = fb_counter + 1
    /\ UNCHANGED <<argVars, loopVars, fb_profiles, used_emails, fb_i, fb_first, fb_last,
                   fb_domain, returned, spc>>

\* the rest of the round: the email is taken and the record appended
GenAppend ==
    /\ spc = "gen_while"
    /\ fb_email \notin used_emails
    /\ used_emails' = UsedAfter(used_emails, fb_email)
    /\ fb_profiles' = Append(fb_profiles,
                             FallbackProfile(fb_first, fb_last, fb_email, role_type, fb_i))
    /\ fb_i' = fb_i + 1
    /\ spc' = IF fb_i + 1 < target_count THEN "gen_for" ELSE "gen_extend"
    /\ UNCHANGED <<argVars, loopVars, fb_first, fb_last, fb_domain, fb_email, fb_counter, returned>>

\* profiles.extend(invalid_entries); the list is returned
GenReturn ==
    /\ spc = "gen_extend"
    /\ fb_profiles' = fb_profiles \o invalid_entries(role_type)
    /\ returned' = fb_profiles \o invalid_entries(role_type)
    /\ spc' = "done"
    /\ UNCHANGED <<argVars, loopVars, used_emails, fb_i, fb_first, fb_last, fb_domain,
                   fb_email, fb_counter>>

InitScrape ==
    /\ role_type \in RoleKeys
    /\ target_count \in 0..MaxTarget
    /\ use_fallback \in BOOLEAN
    /\ profiles = <<>>
    /\ page = 1
    /\ retry_count = 0
    /\ scraping_failed = FALSE
    /\ fb_profiles = <<>>
    /\ used_emails = {}
    /\ fb_i = 0
    /\ fb_first = ""
    /\ fb_last = ""
    /\ fb_domain = ""
    /\ fb_email = ""
    /\ fb_counter = 1
    /\ returned = <<>>
    /\ spc = "called"
    /\ InitClean
    /\ TdIdle

NextScrape ==
    \/ UnknownRole /\ UNCHANGED <<cleanVars, tdVars>>
    \/ EnterLoop /\ UNCHANGED <<cleanVars, tdVars>>
    \/ PageTimeout /\ UNCHANGED <<cleanVars, tdVars>>
    \/ PageError /\ UNCHANGED <<cleanVars, tdVars>>
    \/ PageEmpty /\ UNCHANGED <<cleanVars, tdVars>>
    \/ PageWithLinks /\ UNCHANGED <<cleanVars, tdVars>>
    \/ LeaveLoop /\ UNCHANGED <<cleanVars, tdVars>>
    \/ StartFallback /\ UNCHANGED <<cleanVars, tdVars>>
    \/ ReturnProfiles /\ UNCHANGED <<cleanVars, tdVars>>
    \/ GenDraw /\ UNCHANGED <<cleanVars, tdVars>>
    \/ GenSuffix /\ UNCHANGED <<cleanVars, tdVars>>
    \/ GenAppend /\ UNCHANGED <<cleanVars, tdVars>>
    \/ GenReturn /\ UNCHANGED <<cleanVars, tdVars>>

\* the code runs on: a step that can be taken is taken
ScrapeSpec == InitScrape /\ [][NextScrape]_vars /\ WF_vars(NextScrape)

\* the label the role key stands for
RoleLabel(role) == IF role = "ugc_creators" THEN "UGC Creator" ELSE "Video Editor"

\* C9: every record collected or generated for ugc_creators carries the label
\* "UGC Creator", and every record for video_editors "Video Editor".
C9_RoleLabelsClosed ==
    role_type \in role_urls =>
        \A rec \in Range(profiles) \cup Range(fb_profiles) \cup Range(returned) :
            rec.role_type = PyStr(RoleLabel(role_type))

\* the first count records of the generator
Synthetic == SubSeq(fb_profiles, 1, Min(Len(fb_profiles), fb_i))

PassesAllFour(rec) ==
    /\ validate_email(rec.email) = Ret(TRUE)
    /\ is_valid_name(rec.name) = Ret(TRUE)
    /\ is_test_data(rec.email, rec.name) = Ret(FALSE)
    /\ validate_profile_url(rec.profile_link) = Ret(TRUE)

\* the email of a round that found k emails taken: no suffix for k = 0
SuffixedEmail(first, last, domain, k) ==
    email_base(first, last) \o (IF k = 0 THEN "" ELSE IntToStr(k)) \o "@" \o domain

\* every record a call for role and count can build from the generator's full
\* lists passes the four validators: round i builds its name from the two names
\* drawn, its email also from the domain and a suffix k < count (k = 0: none), its
\* link from the role and the round
AllDrawsPass(role, count) ==
    \A first \in all_first_names, last \in all_last_names :
        LET rec(domain, k) ==
                FallbackProfile(first, last, SuffixedEmail(first, last, domain, k), role, k)
            name == rec("gmail.com", 0).name
        IN /\ is_valid_name(name) = Ret(TRUE)
           /\ \A k \in 0..(count - 1) :
                 /\ validate_profile_url(rec("gmail.com", k).profile_link) = Ret(TRUE)
                 /\ \A domain \in all_email_domains :
                       LET r == rec(domain, k)
                       IN /\ r.name = name
                          /\ validate_email(r.email) = Ret(TRUE)
                          /\ is_test_data(r.email, r.name) = Ret(FALSE)

\* C11: every synthetic record of generate_fallback_profiles (the first count
\* records, for either role, whatever the draws, with or without a collision
\* suffix in its email) passes validate_email, is_valid_name and
\* validate_profile_url, and is_test_data does not flag it: the records the run
\* has built, and at the start of a call that can fall back every record it could
\* build (stated for the largest count, whose records include those of a smaller one).
C11_SyntheticPassValidators ==
    /\ \A i \in 1..Len(Synthetic) : PassesAllFour(Synthetic[i])
    /\ first_names \subseteq all_first_names
    /\ last_names \subseteq all_last_names
    /\ email_domains \subseteq all_email_domains
    /\ (spc = "called" /\ role_type \in role_urls /\ use_fallback /\ target_count = MaxTarget)
          => AllDrawsPass(role_type, target_count)

\* a finished call whose records include one with a suffixed email, for video_editors
C11_Witness ==
    /\ spc = "done"
    /\ role_type = "video_editors"
    /\ Len(Synthetic) >= 2
    /\ \E i \in 1..Len(Synthetic) :
          Synthetic[i].email.s = SuffixedEmail(fb_first, fb_last, fb_domain, 1)

\* C12: whatever the pages give (a timeout, an error, no profile link, or links
\* whose profile pages may or may not yield a name and an email), the while loop
\* of scrape_role_listings is left in the end.
C12_LoopExits == (spc = "loop") ~> (spc # "loop")

====
